---- MODULE Spec2Model ----
(***************************************************************************)
(* Model of cli.js of msix-node: the incremental build pipeline            *)
(*   main -> prepareScript -> createTestSea -> [registerAppx] -> runExe    *)
(* run repeatedly, as separate processes, against one workspace directory  *)
(* (build-tmp-msix) that persists between the runs.                        *)
(***************************************************************************)
EXTENDS Integers, Sequences, FiniteSets, TLC

\* ------------------------------------------------------------- bounds
\* Number of distinct contents msix-node.js takes between the runs.
MaxSrc == 2

Sources == 1..MaxSrc

\* ---------------------------------------------------- the host process
\* process.platform
Platforms == {"win32", "linux"}

\* Major numbers of the host runtimes that load cli.js: require('node:fs')
\* (cli.js:3) resolves from v14.18 on.
Majors == {14, 18, 20, 22}

\* Exit codes the launched artifact may report, besides the null of a child
\* that a signal killed.
ExitCodes == {0, 3}

RECURSIVE Digits(_)
Digits(n) ==
    LET d == <<"0", "1", "2", "3", "4", "5", "6", "7", "8", "9">>
    IN  IF n < 10 THEN <<d[n + 1]>> ELSE Digits(n \div 10) \o <<d[(n % 10) + 1]>>

DigitChars == {"0", "1", "2", "3", "4", "5", "6", "7", "8", "9"}

\* process.version up to and including the dot that ends the major number.
VersionString(major) == <<"v">> \o Digits(major) \o <<".">>

MajorOf(v) == CHOOSE m \in Majors : VersionString(m) = v

\* /^v1\d\./.test(process.version)
VersionUnsupported(v) ==
    /\ Len(v) >= 4
    /\ v[1] = "v"
    /\ v[2] = "1"
    /\ v[3] \in DigitChars
    /\ v[4] = "."

\* process.platform !== 'win32' (variant: no platform refused)
AnyPlatform(p) == FALSE
PlatformUnsupported(p) == p # "win32"

\* ------------------------------------------------------ file contents
NoFile == [exists |-> FALSE, data |-> <<>>]
File(d) == [exists |-> TRUE, data |-> d]

\* compiledScript = preload + script
CompiledScript(s) == <<"__sea = true;", "__srcdirname = __dirname;", s>>

\* Buffer.from(`{ "main": "${scriptName}", "output": "${seaBlobName}" }`)
SeaConfig == <<"main", "main.js", "output", "sea-prep.blob">>

\* node --experimental-sea-config sea-config.json: the blob written to the
\* config's output, made of the file the config names as main.
SeaBlob(script) == <<"sea">> \o script

\* The digest of a file's bytes, as lowercase hex.
MD5(data) == <<"md5">> \o data

\* readFileChecksum: createReadStream(filePath).pipe(hash).on('readable',
\* ...).once('error', reject): the listeners are those of the stream pipe()
\* returns, the hash; pipe() forwards no 'error' of its source.
HasErrorListener(stream) == stream = "hash"

\* let prevBlobChecksum; (undefined)
Undefined == <<>>

\* msixnode.exe: the host binary it was copied from and the blob injected
\* into it by postject (none: <<>>).
ExeData(base, blob) == [base |-> base, blob |-> blob]
NoExe == [exists |-> FALSE, data |-> ExeData(<<>>, <<>>)]

\* fs.cp(process.execPath, msixnode.exe)
HostBinary(v) == [exists |-> TRUE, data |-> ExeData(v, <<>>)]

\* npx postject msixnode.exe NODE_SEA_BLOB sea-prep.blob
Postject(exe, blob) == [exists |-> TRUE, data |-> ExeData(exe.data.base, blob.data)]

\* ------------------------------------------------- the launched child
\* The value the 'exit' listener receives: a number, or null.
ExitValue(n) == [isNull |-> FALSE, n |-> n]
NullExit == [isNull |-> TRUE, n |-> 0]
ExitValues == {ExitValue(n) : n \in ExitCodes} \cup {NullExit}

\* exitCode === 0 (loose variant: !exitCode)
FalsyExitCode(e) == e.isNull \/ e.n = 0
IsZeroExitCode(e) == ~e.isNull /\ e.n = 0

\* ${exitCode}
FormatExitCode(e) == IF e.isNull THEN <<"n", "u", "l", "l">> ELSE Digits(e.n)

\* `msix-node exited with exitCode=${exitCode}`
ExitMessage(e) == <<"msix-node exited with exitCode=">> \o FormatExitCode(e)

\* runExe: the events of the child that runExe listens to: p.on('exit', ...)
ChildHasListener(event) == event = "exit"

\* ------------------------------------------------------ the decisions
\* prevBlobChecksum === blobChecksum
NeverSkip(prev, new) == FALSE
AlwaysSkipWhenPrev(prev, new) == prev # Undefined
ChecksumsMatch(prev, new) == prev = new

\* if (updatedSea)
AlwaysRegister(updated) == TRUE
ShouldRegister(updated) == updated

\* main(); with no rejection handler: a rejected main is an unhandled
\* rejection, fatal (status 1) from v15 on and a warning (status 0) before.
RejectionStatus(v) == IF MajorOf(v) >= 15 THEN 1 ELSE 0

\* ----------------------------------------------------------- the state
VARIABLES
    dirExists,          \* build-tmp-msix exists
    scriptFile,         \* build-tmp-msix/main.js
    configFile,         \* build-tmp-msix/sea-config.json
    blobFile,           \* build-tmp-msix/sea-prep.blob
    exeFile,            \* build-tmp-msix/msixnode.exe
    src,                \* content of msix-node.js
    platform,           \* process.platform
    version,            \* process.version
    pc,                 \* where the run is
    prevBlobChecksum,   \* createTestSea's local
    blobChecksum,       \* createTestSea's local
    updatedSea,         \* main's local
    childExit,          \* exitCode given to the 'exit' listener
    err,                \* the error main was rejected with, or that crashed the process
    exitStatus,         \* the status the tool process ended with
    procs,              \* subprocesses running now
    log,                \* the steps this run has begun, in order
    pre,                \* the workspace as this run found it
    last                \* how the previous run ended; steady: every run so far
                        \* ended without an error and read the same msix-node.js

fsVars == <<dirExists, scriptFile, configFile, blobFile, exeFile>>
envVars == <<src, platform, version>>
localVars == <<prevBlobChecksum, blobChecksum, updatedSea, childExit>>
histVars == <<pre, last>>
vars == <<fsVars, envVars, localVars, histVars, pc, err, exitStatus, procs, log>>

NoError == [stage |-> "none", cause |-> "none", msg |-> <<>>]
Error(stage, cause) == [stage |-> stage, cause |-> cause, msg |-> <<>>]

Workspace ==
    [dir |-> dirExists, script |-> scriptFile, config |-> configFile,
     blob |-> blobFile, exe |-> exeFile]

Init ==
    /\ dirExists = FALSE
    /\ scriptFile = NoFile
    /\ configFile = NoFile
    /\ blobFile = NoFile
    /\ exeFile = NoExe
    /\ src \in Sources
    /\ platform = "win32"
    /\ version = VersionString(20)
    /\ pc = "idle"
    /\ prevBlobChecksum = Undefined
    /\ blobChecksum = Undefined
    /\ updatedSea = FALSE
    /\ childExit = NullExit
    /\ err = NoError
    /\ exitStatus = 0
    /\ procs = {}
    /\ log = <<>>
    /\ pre = [dir |-> FALSE, script |-> NoFile, config |-> NoFile,
              blob |-> NoFile, exe |-> NoExe]
    /\ last = [ran |-> FALSE, cause |-> "none", src |-> 0, steady |-> TRUE]

Step(l) == log' = Append(log, l)

\* A throw that reaches main's caller: main's promise is rejected.
Throw(stage, cause) ==
    /\ pc' = "rejected"
    /\ err' = Error(stage, cause)

\* An 'error' event with no listener: an uncaught exception ends the process.
Crash(stage, cause) ==
    /\ pc' = "crashed"
    /\ err' = Error(stage, cause)

\* ------------------------------------------------------------ actions
\* The tool is started: node cli.js ..., on some host, after msix-node.js
\* was or was not edited.
StartRun ==
    /\ pc \in {"idle", "exited"}
    /\ pc' = "main"
    /\ src' \in Sources
    /\ platform' \in Platforms
    /\ version' \in {VersionString(m) : m \in Majors}
    /\ prevBlobChecksum' = Undefined
    /\ blobChecksum' = Undefined
    /\ updatedSea' = FALSE
    /\ childExit' = NullExit
    /\ err' = NoError
    /\ exitStatus' = 0
    /\ log' = <<>>
    /\ pre' = Workspace
    /\ last' = IF pc = "exited"
               THEN [ran |-> TRUE, cause |-> err.cause, src |-> src,
                     steady |-> /\ err = NoError
                                /\ last.ran => (last.steady /\ last.src = src)]
               ELSE last
    /\ UNCHANGED <<fsVars, procs>>

\* main: if (process.platform !== 'win32') throw
MainPlatformCheck ==
    /\ pc = "main"
    /\ IF PlatformUnsupported(platform)
       THEN Throw("main", "platform")
       ELSE pc' = "prepare_stat" /\ UNCHANGED err
    /\ UNCHANGED <<fsVars, envVars, localVars, histVars, exitStatus, procs, log>>

\* prepareScript: try { stat(outDir) } catch { mkdir(outDir) }
PrepareStat ==
    /\ pc = "prepare_stat"
    /\ pc' = "prepare_write"
    /\ IF dirExists
       THEN Step("stat") /\ UNCHANGED dirExists
       ELSE Step("mkdir") /\ dirExists' = TRUE
    /\ UNCHANGED <<scriptFile, configFile, blobFile, exeFile, envVars, localVars,
                   histVars, err, exitStatus, procs>>

\* main's catch around prepareScript: console.error, throw error
MainCatchPrepare(cause) == Throw("prepareScript", cause)

\* prepareScript: readFile(msix-node.js), writeFile(main.js, preload + script)
PrepareWrite ==
    /\ pc = "prepare_write"
    /\ Step("writeScript")
    /\ \E ok \in BOOLEAN :
        IF ok
        THEN /\ scriptFile' = File(CompiledScript(src))
             /\ pc' = "sea_version"
             /\ UNCHANGED err
        ELSE /\ MainCatchPrepare("writeScript")
             /\ UNCHANGED scriptFile
    /\ UNCHANGED <<dirExists, configFile, blobFile, exeFile, envVars, localVars,
                   histVars, exitStatus, procs>>

\* main's catch around createTestSea: console.error, throw error
MainSwallowSea(cause) ==
    /\ pc' = "after_sea"
    /\ err' = Error("createTestSea", cause)
MainCatchSea(cause) == Throw("createTestSea", cause)

\* createTestSea: the version gate, placed after the config is written
SeaVersionCheckAfterConfig ==
    /\ pc = "sea_version"
    /\ Step("writeConfig")
    /\ configFile' = File(SeaConfig)
    /\ IF VersionUnsupported(version)
       THEN MainCatchSea("version")
       ELSE pc' = "sea_stat" /\ UNCHANGED err
    /\ UNCHANGED <<dirExists, scriptFile, blobFile, exeFile, envVars, localVars,
                   histVars, exitStatus, procs>>

\* createTestSea: if (/^v1\d\./.test(process.version)) throw
SeaVersionCheck ==
    /\ pc = "sea_version"
    /\ IF VersionUnsupported(version)
       THEN MainCatchSea("version")
       ELSE pc' = "sea_config" /\ UNCHANGED err
    /\ UNCHANGED <<fsVars, envVars, localVars, histVars, exitStatus, procs, log>>

\* createTestSea: writeFile(sea-config.json)
SeaWriteConfig ==
    /\ pc = "sea_config"
    /\ Step("writeConfig")
    /\ \E ok \in BOOLEAN :
        IF ok
        THEN /\ configFile' = File(SeaConfig)
             /\ pc' = "sea_stat"
             /\ UNCHANGED err
        ELSE /\ MainCatchSea("writeConfig")
             /\ UNCHANGED configFile
    /\ UNCHANGED <<dirExists, scriptFile, blobFile, exeFile, envVars, localVars,
                   histVars, exitStatus, procs>>

\* createTestSea: try { stat(seaBlobPath); if isFile: prevBlobChecksum =
\* await readFileChecksum(seaBlobPath) } catch {}
\* A blob that is there but cannot be read makes the read stream emit
\* 'error'; a rejection of readFileChecksum would end in the empty catch.
SeaReadPrev ==
    /\ pc = "sea_stat"
    /\ IF ~blobFile.exists
       THEN /\ Step("statBlob")
            /\ pc' = "sea_compile"
            /\ UNCHANGED <<prevBlobChecksum, err>>
       ELSE /\ Step("readPrev")
            /\ \E ok \in BOOLEAN :
                IF ok
                THEN /\ prevBlobChecksum' = MD5(blobFile.data)
                     /\ pc' = "sea_compile"
                     /\ UNCHANGED err
                ELSE /\ UNCHANGED prevBlobChecksum
                     /\ IF HasErrorListener("read")
                        THEN pc' = "sea_compile" /\ UNCHANGED err
                        ELSE Crash("readFileChecksum", "readPrev")
    /\ UNCHANGED <<fsVars, envVars, blobChecksum, updatedSea, childExit, histVars,
                   exitStatus, procs>>

\* createTestSea: exec(...) of the compiler, not awaited
SeaCompileStartNoAwait ==
    /\ pc = "sea_compile"
    /\ pc' = "sea_read_new"
    /\ Step("compiler")
    /\ procs' = procs \cup {"compiler"}
    /\ UNCHANGED <<fsVars, envVars, localVars, histVars, err, exitStatus>>

\* createTestSea: exec('node --experimental-sea-config sea-config.json')
SeaCompileStart ==
    /\ pc = "sea_compile"
    /\ pc' = "sea_compiling"
    /\ Step("compiler")
    /\ procs' = procs \cup {"compiler"}
    /\ UNCHANGED <<fsVars, envVars, localVars, histVars, err, exitStatus>>

\* the compiler exits, and the previous checksum is read only then
SeaCompileExitThenReadPrev ==
    /\ pc = "sea_compiling"
    /\ procs' = procs \ {"compiler"}
    /\ \E ok \in BOOLEAN :
        IF ok
        THEN /\ blobFile' = File(SeaBlob(scriptFile.data))
             /\ prevBlobChecksum' = MD5(SeaBlob(scriptFile.data))
             /\ pc' = "sea_read_new"
             /\ UNCHANGED err
        ELSE /\ MainCatchSea("compiler")
             /\ UNCHANGED <<blobFile, prevBlobChecksum>>
    /\ UNCHANGED <<dirExists, scriptFile, configFile, exeFile, envVars, blobChecksum,
                   updatedSea, childExit, histVars, exitStatus, log>>

\* the compiler exits, and its failure is not propagated
SeaCompileExitIgnoresFailure ==
    /\ pc = "sea_compiling"
    /\ procs' = procs \ {"compiler"}
    /\ pc' = "sea_read_new"
    /\ \E ok \in BOOLEAN :
        IF ok
        THEN /\ blobFile' = File(SeaBlob(scriptFile.data))
             /\ UNCHANGED err
        ELSE /\ err' = Error("createTestSea", "compiler")
             /\ UNCHANGED blobFile
    /\ UNCHANGED <<dirExists, scriptFile, configFile, exeFile, envVars, localVars,
                   histVars, exitStatus, log>>

\* the compiler exits: zero after writing the blob, or non-zero
SeaCompileExit ==
    /\ pc = "sea_compiling"
    /\ procs' = procs \ {"compiler"}
    /\ \E ok \in BOOLEAN :
        IF ok
        THEN /\ blobFile' = File(SeaBlob(scriptFile.data))
             /\ pc' = "sea_read_new"
             /\ UNCHANGED err
        ELSE /\ MainCatchSea("compiler")
             /\ UNCHANGED blobFile
    /\ UNCHANGED <<dirExists, scriptFile, configFile, exeFile, envVars, localVars,
                   histVars, exitStatus, log>>

\* createTestSea: blobChecksum = await readFileChecksum(seaBlobPath)
SeaReadNew ==
    /\ pc = "sea_read_new"
    /\ Step("readNew")
    /\ \E ok \in BOOLEAN :
        IF ok
        THEN /\ blobChecksum' = MD5(blobFile.data)
             /\ pc' = "sea_compare"
             /\ UNCHANGED err
        ELSE /\ UNCHANGED blobChecksum
             /\ IF HasErrorListener("read")
                THEN MainCatchSea("readNew")
                ELSE Crash("readFileChecksum", "readNew")
    /\ UNCHANGED <<fsVars, envVars, prevBlobChecksum, updatedSea, childExit,
                   histVars, exitStatus, procs>>

\* createTestSea: if (prevBlobChecksum === blobChecksum) return false
SeaCompare ==
    /\ pc = "sea_compare"
    /\ Step("compare")
    /\ IF ChecksumsMatch(prevBlobChecksum, blobChecksum)
       THEN pc' = "after_sea" /\ updatedSea' = FALSE
       ELSE pc' = "sea_cp" /\ UNCHANGED updatedSea
    /\ UNCHANGED <<fsVars, envVars, prevBlobChecksum, blobChecksum, childExit,
                   histVars, err, exitStatus, procs>>

\* createTestSea: fs.cp(process.execPath, msixnode.exe)
SeaCopy ==
    /\ pc = "sea_cp"
    /\ Step("cp")
    /\ \E ok \in BOOLEAN :
        IF ok
        THEN /\ exeFile' = HostBinary(version)
             /\ pc' = "sea_postject"
             /\ UNCHANGED err
        ELSE /\ MainCatchSea("cp")
             /\ UNCHANGED exeFile
    /\ UNCHANGED <<dirExists, scriptFile, configFile, blobFile, envVars, localVars,
                   histVars, exitStatus, procs>>

\* createTestSea: exec('npx postject msixnode.exe NODE_SEA_BLOB sea-prep.blob ...')
SeaPostjectStart ==
    /\ pc = "sea_postject"
    /\ pc' = "sea_postjecting"
    /\ Step("postject")
    /\ procs' = procs \cup {"postject"}
    /\ UNCHANGED <<fsVars, envVars, localVars, histVars, err, exitStatus>>

\* the patcher exits: zero after injecting the blob (return true), or non-zero
SeaPostjectExit ==
    /\ pc = "sea_postjecting"
    /\ procs' = procs \ {"postject"}
    /\ \E ok \in BOOLEAN :
        IF ok
        THEN /\ exeFile' = Postject(exeFile, blobFile)
             /\ updatedSea' = TRUE
             /\ pc' = "after_sea"
             /\ UNCHANGED err
        ELSE /\ MainCatchSea("postject")
             /\ UNCHANGED <<exeFile, updatedSea>>
    /\ UNCHANGED <<dirExists, scriptFile, configFile, blobFile, envVars,
                   prevBlobChecksum, blobChecksum, childExit, histVars,
                   exitStatus, log>>

\* main: if (updatedSea) await registerAppx()
MainRegisterGate ==
    /\ pc = "after_sea"
    /\ IF ShouldRegister(updatedSea)
       THEN /\ pc' = "registering"
            /\ Step("register")
            /\ procs' = procs \cup {"powershell"}
       ELSE /\ pc' = "run"
            /\ UNCHANGED <<log, procs>>
    /\ UNCHANGED <<fsVars, envVars, localVars, histVars, err, exitStatus>>

\* main's catch around registerAppx: console.error, throw error
MainSwallowRegister(cause) ==
    /\ pc' = "run"
    /\ err' = Error("registerAppx", cause)
MainCatchRegister(cause) == Throw("registerAppx", cause)

\* registerAppx: Add-AppxPackage exits; main's catch rethrows a failure
RegisterExit ==
    /\ pc = "registering"
    /\ procs' = procs \ {"powershell"}
    /\ \E ok \in BOOLEAN :
        IF ok
        THEN pc' = "run" /\ UNCHANGED err
        ELSE MainCatchRegister("register")
    /\ UNCHANGED <<fsVars, envVars, localVars, histVars, exitStatus, log>>

\* runExe: cp.spawn(exeName, args).  A child that cannot be started either
\* makes spawn throw, inside the async runExe, or makes the child emit
\* 'error' (and no 'exit'); runExe registers an 'exit' listener only.
RunExeSpawn ==
    /\ pc = "run"
    /\ Step("spawn")
    /\ \E r \in {"started", "throws", "error"} :
        CASE r = "started" ->
                /\ pc' = "child_running"
                /\ procs' = procs \cup {"msixnode.exe"}
                /\ UNCHANGED err
          [] r = "throws" ->
                /\ Throw("runExe", "spawnThrow")
                /\ UNCHANGED procs
          [] r = "error" ->
                /\ IF ChildHasListener("error")
                   THEN Throw("runExe", "spawn")
                   ELSE Crash("runExe", "spawn")
                /\ UNCHANGED procs
    /\ UNCHANGED <<fsVars, envVars, localVars, histVars, exitStatus>>

\* runExe: p.on('exit', (exitCode) => exitCode === 0 ? resolve() : reject(...))
RunExeExit ==
    /\ pc = "child_running"
    /\ procs' = procs \ {"msixnode.exe"}
    /\ \E e \in ExitValues :
        /\ childExit' = e
        /\ IF IsZeroExitCode(e)
           THEN pc' = "resolved" /\ UNCHANGED err
           ELSE /\ pc' = "rejected"
                /\ err' = [stage |-> "runExe", cause |-> "exit", msg |-> ExitMessage(e)]
    /\ UNCHANGED <<fsVars, envVars, prevBlobChecksum, blobChecksum, updatedSea,
                   histVars, exitStatus, log>>

\* main(); the process ends once main has settled or an exception was uncaught
ProcessExit ==
    /\ pc \in {"resolved", "rejected", "crashed"}
    /\ pc' = "exited"
    /\ exitStatus' = CASE pc = "resolved" -> 0
                       [] pc = "crashed" -> 1
                       [] pc = "rejected" -> RejectionStatus(version)
    /\ UNCHANGED <<fsVars, envVars, localVars, histVars, err, procs, log>>

Next ==
    \/ StartRun
    \/ MainPlatformCheck
    \/ PrepareStat
    \/ PrepareWrite
    \/ SeaVersionCheck
    \/ SeaWriteConfig
    \/ SeaReadPrev
    \/ SeaCompileStart
    \/ SeaCompileExit
    \/ SeaReadNew
    \/ SeaCompare
    \/ SeaCopy
    \/ SeaPostjectStart
    \/ SeaPostjectExit
    \/ MainRegisterGate
    \/ RegisterExit
    \/ RunExeSpawn
    \/ RunExeExit
    \/ ProcessExit

Spec == Init /\ [][Next]_vars

\* ------------------------------------------- the version gate by itself
\* The largest major number the gate is applied to.
MaxMajor == 60

\* The major number the error message of the gate asks for.
RequiredMajor == 20

GateMajors == 0..MaxMajor
GateMajorOf(v) == CHOOSE m \in GateMajors : VersionString(m) = v

\* createTestSea is entered, after prepareScript, with a process.version of
\* any major number.
GateInit ==
    /\ dirExists = TRUE
    /\ src \in Sources
    /\ scriptFile = File(CompiledScript(src))
    /\ configFile = NoFile
    /\ blobFile = NoFile
    /\ exeFile = NoExe
    /\ platform = "win32"
    /\ version \in {VersionString(m) : m \in GateMajors}
    /\ pc = "sea_version"
    /\ prevBlobChecksum = Undefined
    /\ blobChecksum = Undefined
    /\ updatedSea = FALSE
    /\ childExit = NullExit
    /\ err = NoError
    /\ exitStatus = 0
    /\ procs = {}
    /\ log = <<"mkdir", "writeScript">>
    /\ pre = [dir |-> FALSE, script |-> NoFile, config |-> NoFile,
              blob |-> NoFile, exe |-> NoExe]
    /\ last = [ran |-> FALSE, cause |-> "none", src |-> 0, steady |-> TRUE]

GateNext ==
    \/ SeaVersionCheck
    \/ SeaWriteConfig

GateSpec == GateInit /\ [][GateNext]_vars

\* ------------------------------------------------------- the claims
Has(l) == \E i \in 1..Len(log) : log[i] = l
Count(l) == Cardinality({i \in 1..Len(log) : log[i] = l})

\* createTestSea has returned (true or false) in this run.
SeaReturned ==
    /\ Has("compare")
    /\ pc \notin {"sea_cp", "sea_postject", "sea_postjecting"}
    /\ err.stage # "createTestSea"

\* The 'exit' listener of runExe has run in this run.
ExitObserved ==
    /\ Has("spawn")
    /\ pc \in {"resolved", "rejected", "exited"}
    /\ err.cause \notin {"spawn", "spawnThrow"}

\* C1: whenever createTestSea completes without error, msixnode.exe exists
\* and has embedded in it the content of the blob now on disk.
FinalArtifactEmbedsCurrentBlob ==
    pc = "after_sea" =>
        /\ exeFile.exists
        /\ exeFile.data.blob = blobFile.data

\* C2: after a run that the patcher's failure aborted, the next run with the
\* same source script copies the host binary again, invokes the patcher
\* again and returns true.
RebuildAfterPatcherAbort ==
    (last.ran /\ last.cause = "postject" /\ last.src = src /\ pc = "after_sea") =>
        /\ updatedSea
        /\ Has("cp")
        /\ Has("postject")

\* C3: when the blob the prior run left and the blob the compiler has just
\* produced have the same content, createTestSea returns false, neither
\* copies the host binary nor invokes the patcher, and msixnode.exe is as
\* the run found it.
IdempotentSkip ==
    (Has("readNew") /\ pre.blob.exists /\ pre.blob = blobFile) =>
        /\ ~updatedSea
        /\ ~Has("cp")
        /\ ~Has("postject")
        /\ pc \notin {"sea_cp", "sea_postject", "sea_postjecting"}
        /\ exeFile = pre.exe
        /\ Has("compare") => SeaReturned

SkippedWithArtifact ==
    /\ pc = "after_sea"
    /\ ~updatedSea
    /\ pre.blob.exists
    /\ pre.blob = blobFile
    /\ pre.exe.exists
    /\ exeFile = pre.exe

\* C4: when the previous digest is absent (no blob file before the compile)
\* or differs from the new one, createTestSea does not skip: the copy is its
\* next step, the patcher follows a copy that succeeded, and it returns true
\* once the patcher has succeeded, with the new blob embedded in a fresh
\* copy of the host binary.  It never returns false.
ChangeTriggersRebuild ==
    /\ Has("compare") => (prevBlobChecksum = Undefined <=> ~pre.blob.exists)
    /\ (Has("compare") /\ prevBlobChecksum # blobChecksum) =>
        /\ Has("cp") \/ pc = "sea_cp"
        /\ (Has("cp") /\ err.cause # "cp") => (Has("postject") \/ pc = "sea_postject")
        /\ (Has("postject") /\ pc # "sea_postjecting" /\ err.cause # "postject")
              => SeaReturned
        /\ SeaReturned =>
              /\ updatedSea
              /\ Has("cp")
              /\ Has("postject")
              /\ exeFile = Postject(HostBinary(version), blobFile)

RebuiltOnChangedDigest ==
    /\ pc = "after_sea"
    /\ updatedSea
    /\ prevBlobChecksum # Undefined
    /\ prevBlobChecksum # blobChecksum
    /\ blobChecksum = MD5(blobFile.data)

\* C5: in every run registerAppx is invoked if and only if createTestSea
\* returned true in that run, and then exactly once.
ConditionalRegistration ==
    /\ Count("register") <= 1
    /\ pc = "after_sea" => ~Has("register")
    /\ pc # "after_sea" => (Has("register") <=> updatedSea)
    /\ updatedSea => SeaReturned

RegisteredAfterRebuild ==
    /\ pc = "exited"
    /\ last.ran
    /\ pre.blob.exists
    /\ updatedSea
    /\ Count("register") = 1

\* C6: when the compiler subprocess fails, the run ends there: neither
\* registerAppx nor runExe is invoked, and no step of the run was taken twice.
FailFast ==
    err.cause = "compiler" =>
        /\ pc \in {"rejected", "exited"}
        /\ ~Has("register")
        /\ ~Has("spawn")
        /\ procs = {}
        /\ \A i, j \in 1..Len(log) : log[i] = log[j] => i = j

CompilerFailed ==
    /\ err.cause = "compiler"
    /\ pc = "exited"
    /\ Has("compiler")

PlatformGateFirst ==
    /\ (platform # "win32" /\ pc \notin {"idle", "main"}) =>
          /\ err.cause = "platform"
          /\ pc \in {"rejected", "exited"}
    /\ err.cause = "platform" =>
          /\ log = <<>>
          /\ procs = {}
          /\ Workspace = pre

PlatformRejected ==
    /\ err.cause = "platform"
    /\ platform = "linux"
    /\ pc = "exited"
    /\ pre.exe.exists

\* C9: the tool ends with a non-zero status when a stage of the pipeline
\* failed, and otherwise with the exit code of the launched artifact.
ExitStatusContract ==
    pc = "exited" =>
        IF err = NoError
        THEN ~childExit.isNull /\ exitStatus = childExit.n
        ELSE exitStatus # 0

\* C10: runExe resolves if and only if the exit code it observes is 0; for
\* every other value, null included, it rejects with an error that carries
\* the observed value.
ExitCodePassthrough ==
    ExitObserved =>
        /\ err = NoError <=> (~childExit.isNull /\ childExit.n = 0)
        /\ pc = "resolved" => err = NoError
        /\ pc = "rejected" => err # NoError
        /\ err # NoError =>
              /\ err.stage = "runExe"
              /\ err.msg = <<"msix-node exited with exitCode=">> \o FormatExitCode(childExit)
              /\ \A e \in ExitValues : FormatExitCode(e) = FormatExitCode(childExit) => e = childExit

RejectedWithNullCode ==
    /\ ExitObserved
    /\ pc = "rejected"
    /\ childExit.isNull
    /\ err.msg = <<"msix-node exited with exitCode=", "n", "u", "l", "l">>

\* A later run of the end-to-end scenario: every run before it ended without
\* an error, and they all read the msix-node.js this run reads.
SteadyLaterRun == last.ran /\ last.steady /\ last.src = src

\* C11: from a fresh workspace and with no tool failing, the first run
\* returns rebuilt = true with the artifact built and invokes the registrar
\* exactly once; every later run with the same source script returns
\* rebuilt = false, does not invoke the registrar, leaves msixnode.exe as it
\* was, and still invokes the launcher.
EndToEndIncremental ==
    /\ (~last.ran /\ pc = "after_sea") =>
          /\ updatedSea
          /\ exeFile = Postject(HostBinary(version), blobFile)
    /\ (~last.ran /\ err = NoError /\ pc \in {"run", "child_running", "resolved", "exited"}) =>
          /\ Count("register") = 1
          /\ exeFile.exists
          /\ exeFile.data.blob = blobFile.data
    /\ SteadyLaterRun =>
          /\ pre.exe.exists
          /\ exeFile = pre.exe
          /\ ~updatedSea
          /\ \A l \in {"cp", "postject", "register"} : ~Has(l)
          /\ Has("compare") => (SeaReturned /\ exeFile.data.blob = blobFile.data)
          /\ (Has("compare") /\ pc # "after_sea") => (pc = "run" \/ Has("spawn"))

LaterRunSkipsAndLaunches ==
    /\ SteadyLaterRun
    /\ pc = "exited"
    /\ err = NoError
    /\ Has("compare")
    /\ Has("spawn")
    /\ ~updatedSea

\* C12: when the file cannot be read, readFileChecksum's promise is
\* rejected: a failure to read the new blob reaches main as an error of
\* createTestSea, and a failure to read the previous blob ends in the empty
\* catch around it; neither escapes the promise.
ChecksumFailureRejects ==
    /\ err.cause # "readPrev"
    /\ err.cause = "readNew" =>
          /\ pc \in {"rejected", "exited"}
          /\ err.stage = "createTestSea"

\* The place of each step in the order main and createTestSea take them.
StepRank(l) ==
    CASE l \in {"stat", "mkdir"} -> 1
      [] l = "writeScript" -> 2
      [] l = "writeConfig" -> 3
      [] l \in {"statBlob", "readPrev"} -> 4
      [] l = "compiler" -> 5
      [] l = "readNew" -> 6
      [] l = "compare" -> 7
      [] l = "cp" -> 8
      [] l = "postject" -> 9
      [] l = "register" -> 10
      [] l = "spawn" -> 11

\* C13: within a run the steps are begun in their one order, no step is
\* begun while a subprocess is running, and at most one subprocess runs at
\* any time.
StrictSequencing ==
    /\ Cardinality(procs) <= 1
    /\ \A i, j \in 1..Len(log) : i < j => StepRank(log[i]) < StepRank(log[j])
    /\ "compiler" \in procs <=> pc = "sea_compiling"
    /\ "postject" \in procs <=> pc = "sea_postjecting"
    /\ "powershell" \in procs <=> pc = "registering"
    /\ "msixnode.exe" \in procs <=> pc = "child_running"

AllSubprocessesRanInOrder ==
    /\ procs = {"msixnode.exe"}
    /\ Has("compiler")
    /\ Has("postject")
    /\ Has("register")
    /\ log[Len(log)] = "spawn"

\* C14: the previous digest is that of the blob the prior run left, taken
\* before the compiler is invoked, and the compiler is invoked exactly once
\* in a run whether createTestSea then skips the embedding or performs it.
PrevDigestBeforeCompile ==
    /\ Count("compiler") <= 1
    /\ Has("compiler") =>
          /\ \E i, j \in 1..Len(log) :
                /\ i < j
                /\ log[i] \in {"statBlob", "readPrev"}
                /\ log[j] = "compiler"
          /\ prevBlobChecksum =
                IF pre.blob.exists THEN <<"md5">> \o pre.blob.data ELSE Undefined
    /\ Has("compare") => Count("compiler") = 1
    /\ SeaReturned => Count("compiler") = 1

PrevDigestOfReplacedBlob ==
    /\ SeaReturned
    /\ updatedSea
    /\ pre.blob.exists
    /\ pre.blob # blobFile
    /\ prevBlobChecksum = <<"md5">> \o pre.blob.data
    /\ Count("compiler") = 1

\* C15: a failure of the registrar ends the run: the launcher is not
\* invoked, and msixnode.exe stays as the embedding step of the run left it.
RegistrarFailureTerminal ==
    err.cause = "register" =>
        /\ pc \in {"rejected", "exited"}
        /\ ~Has("spawn")
        /\ procs = {}
        /\ Has("postject")
        /\ exeFile = Postject(HostBinary(version), blobFile)

RegistrarFailed ==
    /\ err.cause = "register"
    /\ pc = "exited"
    /\ exeFile.exists

\* C16: when the compiler fails, createTestSea neither copies the host
\* binary nor invokes the patcher, and msixnode.exe is as the run found it.
CompilerFailureLeavesArtifact ==
    err.cause = "compiler" =>
        /\ ~Has("readNew")
        /\ ~Has("compare")
        /\ ~Has("cp")
        /\ ~Has("postject")
        /\ exeFile = pre.exe

CompilerFailedWithArtifact ==
    /\ err.cause = "compiler"
    /\ pc = "rejected"
    /\ pre.exe.exists
    /\ pre.exe.data.blob # <<>>

LaunchFailureRejects ==
    err.cause = "spawn" =>
        /\ pc \in {"rejected", "exited"}
        /\ err.stage = "runExe"

\* C19: the run after one in which the embedding succeeded and the registrar
\* failed, with the same source script, finds equal digests, returns false,
\* does not invoke the registrar and still invokes the launcher.
NoRegistrationRetry ==
    (last.ran /\ last.cause = "register" /\ last.src = src) =>
        /\ pre.exe.exists
        /\ exeFile = pre.exe
        /\ ~updatedSea
        /\ \A l \in {"cp", "postject", "register"} : ~Has(l)
        /\ Has("compare") => (prevBlobChecksum = blobChecksum /\ SeaReturned)
        /\ (Has("compare") /\ pc # "after_sea") => (pc = "run" \/ Has("spawn"))

LaunchedAfterFailedRegistration ==
    /\ last.ran
    /\ last.cause = "register"
    /\ last.src = src
    /\ pc = "child_running"
    /\ ~Has("register")

====
